---- MODULE Spec2Model ----
(***************************************************************************)
(* Model of generate.py, the Simultaneous Equation Cannon spreadsheet      *)
(* generator: the enumerator solve, the renderer generate_excel and the    *)
(* command-line entry point main.                                          *)
(*                                                                         *)
(* Python values that may be None (a cell value, current_stars,            *)
(* group_start_row) are modelled as options: None is the empty tuple and   *)
(* a value v is the one-element tuple <<v>>.                               *)
(***************************************************************************)
EXTENDS Integers, Sequences, FiniteSets, TLC

VARIABLES
    argv,             \* the four positional command-line integers, in order
    args,             \* the argparse namespace (empty before parse_args)
    pc,               \* position of the program
    exit_code,        \* process exit status
    stderr,           \* messages of parser.error
    stdout,           \* printed lines
    called,           \* the functions main has invoked so far, in order
    solutions,        \* the list of solution records
    output_path,      \* [dirname, basename] of the file to write
    ws,               \* the worksheet: (row, column) -> cell value
    merged,           \* merged ranges of the worksheet
    current_stars,    \* generate_excel's local
    group_start_row,  \* generate_excel's local
    row_idx,          \* row of the next solution to write
    files,            \* the file system: path -> saved workbook content
    dirs              \* the file system: directories that exist

vars == <<argv, args, pc, exit_code, stderr, stdout, called, solutions,
          output_path, ws, merged, current_stars, group_start_row, row_idx,
          files, dirs>>

----------------------------------------------------------------------------
(* Bounds of the model *)

\* command-line integers are drawn from -1..MaxArg
MaxArg == 3

\* generate_excel called directly: lists of at most MaxLen records over
\* fusion, xyz in 1..MaxField
MaxLen == 4

MaxField == 2

ArgValues == (0 - 1)..MaxArg

\* the invocation of the module docstring, 'generate.py 1 5 2 6'
DocExampleArgv == <<1, 5, 2, 6>>

\* the invocation of the validation example: fusion_min=5, fusion_max=1
OrderingExampleArgv == <<1, 1, 5, 1>>

ArgvInputs ==
    {<<a, b, c, d>> : a \in ArgValues, b \in ArgValues,
                      c \in ArgValues, d \in ArgValues}
        \cup {DocExampleArgv, OrderingExampleArgv}

----------------------------------------------------------------------------
(* Python values *)

None == <<>>

Some(v) == <<v>>

SCRIPT_DIR == "<script_dir>"

NoPath == [dirname |-> <<>>, basename |-> ""]

----------------------------------------------------------------------------
(* solve *)

\* MakeRecord with the two coefficients of nb_cards exchanged
MakeRecordSwapped(fusion, xyz) ==
    [stars    |-> fusion + xyz,
     nb_cards |-> 2 * fusion + xyz,
     xyz      |-> xyz,
     fusion   |-> fusion]

MakeRecord(fusion, xyz) ==
    [stars    |-> fusion + xyz,
     nb_cards |-> fusion + 2 * xyz,
     xyz      |-> xyz,
     fusion   |-> fusion]

\* XyzLoop over range(xyz_min, xyz_max): the upper end left out
RECURSIVE XyzLoopExclusive(_, _, _, _)
XyzLoopExclusive(fusion, xyz, xyz_max, acc) ==
    IF xyz >= xyz_max
    THEN acc
    ELSE XyzLoopExclusive(fusion, xyz + 1, xyz_max,
                          Append(acc, MakeRecord(fusion, xyz)))

\* for xyz in range(xyz_min, xyz_max + 1): solutions.append(...)
RECURSIVE XyzLoop(_, _, _, _)
XyzLoop(fusion, xyz, xyz_max, acc) ==
    IF xyz >= xyz_max + 1
    THEN acc
    ELSE XyzLoop(fusion, xyz + 1, xyz_max, Append(acc, MakeRecord(fusion, xyz)))

\* for fusion in range(fusion_min, fusion_max + 1): ...
RECURSIVE FusionLoop(_, _, _, _, _)
FusionLoop(fusion, fusion_max, xyz_min, xyz_max, acc) ==
    IF fusion >= fusion_max + 1
    THEN acc
    ELSE FusionLoop(fusion + 1, fusion_max, xyz_min, xyz_max,
                    XyzLoop(fusion, xyz_min, xyz_max, acc))

\* SortKey without the tie-break on xyz
SortKeyStarsOnly(s) == <<s.stars>>

\* SortKey on nb_cards in place of stars
SortKeyNbCards(s) == <<s.nb_cards, s.xyz>>

\* key=lambda s: (s["stars"], s["xyz"])
SortKey(s) == <<s.stars, s.xyz>>

\* TupleLess turned around: the sort without reverse=True
RECURSIVE TupleGreater(_, _)
TupleGreater(a, b) ==
    IF a = <<>> \/ b = <<>>
    THEN FALSE
    ELSE IF Head(a) # Head(b)
         THEN Head(a) > Head(b)
         ELSE TupleGreater(Tail(a), Tail(b))

\* Python's tuple comparison a < b, for tuples of equal length
RECURSIVE TupleLess(_, _)
TupleLess(a, b) ==
    IF a = <<>> \/ b = <<>>
    THEN FALSE
    ELSE IF Head(a) # Head(b)
         THEN Head(a) < Head(b)
         ELSE TupleLess(Tail(a), Tail(b))

\* s placed in a list sorted by descending key, behind every element whose
\* key is not smaller: list.sort(reverse=True) is stable
RECURSIVE InsertDescending(_, _)
InsertDescending(s, sorted) ==
    IF sorted = <<>>
    THEN <<s>>
    ELSE IF TupleLess(SortKey(Head(sorted)), SortKey(s))
         THEN <<s>> \o sorted
         ELSE <<Head(sorted)>> \o InsertDescending(s, Tail(sorted))

RECURSIVE SortFrom(_, _)
SortFrom(rest, sorted) ==
    IF rest = <<>>
    THEN sorted
    ELSE SortFrom(Tail(rest), InsertDescending(Head(rest), sorted))

\* solutions.sort(key=..., reverse=True)
SortDescending(list) == SortFrom(list, <<>>)

solve(fusion_min, fusion_max, xyz_min, xyz_max) ==
    SortDescending(FusionLoop(fusion_min, fusion_max, xyz_min, xyz_max, <<>>))

----------------------------------------------------------------------------
(* the worksheet *)

\* ws.cell(row=row, column=column, value=value)
SetCell(sheet, row, column, value) ==
    [c \in DOMAIN sheet \cup {<<row, column>>} |->
        IF c = <<row, column>> THEN value ELSE sheet[c]]

\* the value of a cell; a cell never written is blank
CellValue(sheet, row, column) ==
    IF <<row, column>> \in DOMAIN sheet THEN sheet[<<row, column>>] ELSE None

HEADERS == <<"stars", "nb cards", "xyz", "fusion">>

HeaderRow == [c \in {<<1, col>> : col \in 1..4} |-> Some(HEADERS[c[2]])]

\* ws.merge_cells(start_row=.., start_column=1, end_row=.., end_column=1)
MergeCells(ranges, start_row, end_row) ==
    ranges \cup {[start_row |-> start_row, start_column |-> 1,
                  end_row |-> end_row, end_column |-> 1]}

----------------------------------------------------------------------------
(* main *)

\* the messages handed to parser.error, with <= and >= written in ASCII
USAGE_FUSION_ORDER == "fusion_min must be <= fusion_max"

USAGE_XYZ_ORDER == "xyz_min must be <= xyz_max"

USAGE_POSITIVE == "All level/rank values must be >= 1"

\* ValidationError with the positivity rule checked first
ValidationErrorPositiveFirst(a) ==
    IF a.fusion_min < 1 \/ a.xyz_min < 1 THEN Some(USAGE_POSITIVE)
    ELSE IF a.fusion_min > a.fusion_max THEN Some(USAGE_FUSION_ORDER)
    ELSE IF a.xyz_min > a.xyz_max THEN Some(USAGE_XYZ_ORDER)
    ELSE None

\* the first violated validation rule, None if there is none
ValidationError(a) ==
    IF a.fusion_min > a.fusion_max THEN Some(USAGE_FUSION_ORDER)
    ELSE IF a.xyz_min > a.xyz_max THEN Some(USAGE_XYZ_ORDER)
    ELSE IF a.fusion_min < 1 \/ a.xyz_min < 1 THEN Some(USAGE_POSITIVE)
    ELSE None

\* ParseArgs with the positionals bound fusion first
ParseArgsFusionFirst(v) ==
    [fusion_min |-> v[1], fusion_max |-> v[2], xyz_min |-> v[3], xyz_max |-> v[4]]

\* the four add_argument calls bind the positionals in this order
ParseArgs(v) ==
    [xyz_min |-> v[1], xyz_max |-> v[2], fusion_min |-> v[3], fusion_max |-> v[4]]

\* f"sec xyz{xyz_min}-{xyz_max} fusion{fusion_min}-{fusion_max}.xlsx"
Filename(a) ==
    "sec xyz" \o ToString(a.xyz_min) \o "-" \o ToString(a.xyz_max)
        \o " fusion" \o ToString(a.fusion_min) \o "-" \o ToString(a.fusion_max)
        \o ".xlsx"

\* os.path.join(script_dir, "results", filename)
OutputPath(a) == [dirname |-> <<SCRIPT_DIR, "results">>, basename |-> Filename(a)]

Init ==
    /\ argv \in ArgvInputs
    /\ args = <<>>
    /\ pc = "parse"
    /\ exit_code = 0
    /\ stderr = <<>>
    /\ stdout = <<>>
    /\ called = <<>>
    /\ solutions = <<>>
    /\ output_path = NoPath
    /\ ws = <<>>
    /\ merged = {}
    /\ current_stars = None
    /\ group_start_row = None
    /\ row_idx = 0
    /\ files = <<>>
    /\ dirs = {}

\* args = parser.parse_args()
Parse ==
    /\ pc = "parse"
    /\ args' = ParseArgs(argv)
    /\ pc' = "validate"
    /\ UNCHANGED <<argv, exit_code, stderr, stdout, called, solutions,
                   output_path, ws, merged, current_stars, group_start_row,
                   row_idx, files, dirs>>

\* the three checks; parser.error prints the message and exits with status 2
Validate ==
    /\ pc = "validate"
    /\ IF ValidationError(args) # None
       THEN /\ stderr' = Append(stderr, ValidationError(args)[1])
            /\ exit_code' = 2
            /\ pc' = "exit"
       ELSE /\ pc' = "solve"
            /\ UNCHANGED <<stderr, exit_code>>
    /\ UNCHANGED <<argv, args, stdout, called, solutions, output_path, ws,
                   merged, current_stars, group_start_row, row_idx, files, dirs>>

\* solutions = solve(args.fusion_min, args.fusion_max, args.xyz_min, args.xyz_max)
CallSolve ==
    /\ pc = "solve"
    /\ called' = Append(called, "solve")
    /\ solutions' = solve(args.fusion_min, args.fusion_max, args.xyz_min, args.xyz_max)
    /\ pc' = "path"
    /\ UNCHANGED <<argv, args, exit_code, stderr, stdout, output_path, ws,
                   merged, current_stars, group_start_row, row_idx, files, dirs>>

\* script_dir, filename, output_path; then generate_excel is entered
BuildOutputPath ==
    /\ pc = "path"
    /\ output_path' = OutputPath(args)
    /\ called' = Append(called, "generate_excel")
    /\ pc' = "header"
    /\ UNCHANGED <<argv, args, exit_code, stderr, stdout, solutions, ws,
                   merged, current_stars, group_start_row, row_idx, files, dirs>>

----------------------------------------------------------------------------
(* generate_excel *)

\* the workbook, the header row, and the locals of the data loop
WriteHeader ==
    /\ pc = "header"
    /\ ws' = HeaderRow
    /\ merged' = {}
    /\ current_stars' = None
    /\ group_start_row' = None
    /\ row_idx' = 2
    /\ pc' = "rows"
    /\ UNCHANGED <<argv, args, exit_code, stderr, stdout, called, solutions,
                   output_path, files, dirs>>

\* if stars_val != current_stars
OpensGroup(stars_val, current) == Some(stars_val) # current

\* close the previous stars group: merge it if it spanned multiple rows
ClosePreviousGroup(ranges, current, group_start, row) ==
    IF current # None /\ row - 1 > group_start[1]
    THEN MergeCells(ranges, group_start[1], row - 1)
    ELSE ranges

\* Column1Value with the stars value written on every row
Column1ValueAlways(stars_val, current) == Some(stars_val)

\* column 1 of a data row: the stars value on the row that opens a group,
\* nothing on a subsequent row of the same group
Column1Value(stars_val, current) ==
    IF OpensGroup(stars_val, current) THEN Some(stars_val) ELSE None

\* one iteration of: for row_idx, sol in enumerate(solutions, start=2)
WriteRow ==
    /\ pc = "rows"
    /\ row_idx - 1 <= Len(solutions)
    /\ LET sol == solutions[row_idx - 1]
           stars_val == sol.stars
           new_group == OpensGroup(stars_val, current_stars)
       IN  /\ merged' = IF new_group
                        THEN ClosePreviousGroup(merged, current_stars,
                                                group_start_row, row_idx)
                        ELSE merged
           /\ current_stars' = IF new_group THEN Some(stars_val) ELSE current_stars
           /\ group_start_row' = IF new_group THEN Some(row_idx) ELSE group_start_row
           /\ ws' = SetCell(SetCell(SetCell(SetCell(ws,
                        row_idx, 1, Column1Value(stars_val, current_stars)),
                        row_idx, 2, Some(sol.nb_cards)),
                        row_idx, 3, Some(sol.xyz)),
                        row_idx, 4, Some(sol.fusion))
    /\ row_idx' = row_idx + 1
    /\ UNCHANGED <<argv, args, pc, exit_code, stderr, stdout, called, solutions,
                   output_path, files, dirs>>

\* CloseLastRanges with the merge after the loop left out
CloseLastRangesForgotten(ranges, group_start, n) == ranges

\* close the last stars group: last_row = len(solutions) + 1
CloseLastRanges(ranges, group_start, n) ==
    IF group_start # None /\ n + 1 > group_start[1]
    THEN MergeCells(ranges, group_start[1], n + 1)
    ELSE ranges

\* after the loop
CloseLastGroup ==
    /\ pc = "rows"
    /\ row_idx - 1 > Len(solutions)
    /\ merged' = CloseLastRanges(merged, group_start_row, Len(solutions))
    /\ pc' = "save"
    /\ UNCHANGED <<argv, args, exit_code, stderr, stdout, called, solutions,
                   output_path, ws, current_stars, group_start_row, row_idx,
                   files, dirs>>

\* os.makedirs(dirname, exist_ok=True); wb.save(output_path); print(...)
Save ==
    /\ pc = "save"
    /\ dirs' = dirs \cup {output_path.dirname}
    /\ files' = [p \in DOMAIN files \cup {output_path} |->
                    IF p = output_path
                    THEN [cells |-> ws, merged_cells |-> merged]
                    ELSE files[p]]
    /\ stdout' = Append(stdout, <<"Saved: ", output_path>>)
    /\ pc' = "exit"
    /\ UNCHANGED <<argv, args, exit_code, stderr, called, solutions,
                   output_path, ws, merged, current_stars, group_start_row,
                   row_idx>>

Next ==
    \/ Parse
    \/ Validate
    \/ CallSolve
    \/ BuildOutputPath
    \/ WriteHeader
    \/ WriteRow
    \/ CloseLastGroup
    \/ Save

Spec == Init /\ [][Next]_vars

----------------------------------------------------------------------------
(* generate_excel called on its own, with any list of records *)

RenderRecords == {MakeRecord(f, x) : f \in 1..MaxField, x \in 1..MaxField}

RECURSIVE ListsUpTo(_)
ListsUpTo(n) ==
    IF n = 0
    THEN {<<>>}
    ELSE LET shorter == ListsUpTo(n - 1)
         IN  shorter \cup {Append(l, r) : l \in shorter, r \in RenderRecords}

InitRender ==
    /\ solutions \in ListsUpTo(MaxLen)
    /\ output_path = [dirname |-> <<"out">>, basename |-> "book.xlsx"]
    /\ argv = <<>>
    /\ args = <<>>
    /\ pc = "header"
    /\ exit_code = 0
    /\ stderr = <<>>
    /\ stdout = <<>>
    /\ called = <<>>
    /\ ws = <<>>
    /\ merged = {}
    /\ current_stars = None
    /\ group_start_row = None
    /\ row_idx = 0
    /\ files = <<>>
    /\ dirs = {}

NextRender ==
    \/ WriteHeader
    \/ WriteRow
    \/ CloseLastGroup
    \/ Save

SpecRender == InitRender /\ [][NextRender]_vars

----------------------------------------------------------------------------
(* Properties of solve, checked under Spec *)

\* solve has returned: solutions holds its result for the bounds in args
SolveReturned == Len(called) >= 1

FusionRange == args.fusion_min..args.fusion_max

XyzRange == args.xyz_min..args.xyz_max

\* the positions of solutions that hold the pair (fusion, xyz)
Occurrences(fusion, xyz) ==
    {i \in DOMAIN solutions :
        solutions[i].fusion = fusion /\ solutions[i].xyz = xyz}

\* C1: for bounds with fusion_min <= fusion_max, xyz_min <= xyz_max, all
\* >= 1, solve returns exactly (fusion_max-fusion_min+1)*(xyz_max-xyz_min+1)
\* records, every pair of the two inclusive ranges is in exactly one record,
\* and no record lies outside the ranges.
C1_EnumerationComplete ==
    SolveReturned =>
        /\ Len(solutions) =
               (args.fusion_max - args.fusion_min + 1)
                   * (args.xyz_max - args.xyz_min + 1)
        /\ \A f \in FusionRange : \A x \in XyzRange :
               Cardinality(Occurrences(f, x)) = 1
        /\ \A i \in DOMAIN solutions :
               solutions[i].fusion \in FusionRange /\ solutions[i].xyz \in XyzRange

\* solve has returned for two ranges of more than one value each
C1_Witness ==
    /\ SolveReturned
    /\ args.fusion_min >= 1 /\ args.fusion_min < args.fusion_max
    /\ args.xyz_min >= 1 /\ args.xyz_min < args.xyz_max
    /\ Len(solutions) >= 4

\* the fields the claim C2 lists of a record
Triple(s) == <<s.fusion, s.xyz, s.stars>>

\* C2: the list solve returns is non-increasing by stars and, among equal
\* stars, non-increasing by xyz; solve(1,2,1,2) returns (fusion2,xyz2,stars4),
\* (fusion1,xyz2,stars3), (fusion2,xyz1,stars3), (fusion1,xyz1,stars2).
C2_SortedDescending ==
    SolveReturned =>
        /\ \A i \in 1..(Len(solutions) - 1) :
               /\ solutions[i].stars >= solutions[i + 1].stars
               /\ solutions[i].stars = solutions[i + 1].stars
                      => solutions[i].xyz >= solutions[i + 1].xyz
        /\ (args.fusion_min = 1 /\ args.fusion_max = 2
                /\ args.xyz_min = 1 /\ args.xyz_max = 2)
               => [i \in DOMAIN solutions |-> Triple(solutions[i])]
                      = << <<2, 2, 4>>, <<1, 2, 3>>, <<2, 1, 3>>, <<1, 1, 2>> >>

\* solve(1,2,1,2) has returned
C2_Witness ==
    /\ SolveReturned
    /\ args.fusion_min = 1 /\ args.fusion_max = 2
    /\ args.xyz_min = 1 /\ args.xyz_max = 2
    /\ Len(solutions) = 4

\* C3: every record solve returns has stars = fusion + xyz and
\* nb_cards = fusion + 2*xyz, and so, the bounds being validated,
\* stars <= nb_cards.
C3_RecordEquations ==
    SolveReturned =>
        \A i \in DOMAIN solutions :
            /\ solutions[i].stars = solutions[i].fusion + solutions[i].xyz
            /\ solutions[i].nb_cards = solutions[i].fusion + 2 * solutions[i].xyz
            /\ solutions[i].stars <= solutions[i].nb_cards

\* solve has returned records that differ in fusion and in xyz
C3_Witness ==
    /\ SolveReturned
    /\ \E i, j \in DOMAIN solutions :
           /\ solutions[i].fusion # solutions[j].fusion
           /\ solutions[i].xyz # solutions[j].xyz
           /\ solutions[i].stars < solutions[i].nb_cards

----------------------------------------------------------------------------
(* Properties of generate_excel, checked under SpecRender *)

\* generate_excel has processed the whole list
Rendered == pc = "save" \/ (pc = "exit" /\ exit_code = 0)

\* position i of the list opens a run of equal stars
OpensRun(i) == i = 1 \/ solutions[i - 1].stars # solutions[i].stars

\* position j of the list ends a run of equal stars
EndsRun(j) == j = Len(solutions) \/ solutions[j + 1].stars # solutions[j].stars

\* the maximal contiguous runs of equal stars, as pairs of list positions
MaximalRuns ==
    {r \in (DOMAIN solutions) \X (DOMAIN solutions) :
        /\ r[1] <= r[2]
        /\ OpensRun(r[1])
        /\ EndsRun(r[2])
        /\ \A k \in r[1]..r[2] : solutions[k].stars = solutions[r[1]].stars}

\* the column-1 range of the rows of a run: position i is row i + 1
RunRange(r) ==
    [start_row |-> r[1] + 1, start_column |-> 1,
     end_row |-> r[2] + 1, end_column |-> 1]

\* C4: once generate_excel has processed a list, the merged ranges are
\* exactly the column-1 row ranges of the maximal contiguous runs of equal
\* stars of length > 1, the last run included; no range spans two stars
\* values or the header row, and no run of length 1 is merged.
C4_MergedRunsExact ==
    Rendered =>
        /\ merged = {RunRange(r) : r \in {q \in MaximalRuns : q[2] > q[1]}}
        /\ \A m \in merged :
               /\ m.start_row >= 2
               /\ m.start_row < m.end_row
               /\ \A row \in m.start_row..m.end_row :
                      solutions[row - 1].stars = solutions[m.start_row - 1].stars

\* a rendered list that ends in a run of length > 1 behind a run of length 1
C4_Witness ==
    /\ pc = "exit"
    /\ \E r \in MaximalRuns : r[1] = r[2]
    /\ \E r \in MaximalRuns : r[1] < r[2] /\ r[2] = Len(solutions)
    /\ merged # {}

\* C5: generate_excel writes one data row per solution in rows 2..N+1 in list
\* order, columns 2, 3, 4 holding nb_cards, xyz, fusion; column 1 holds the
\* stars value on the first row of each maximal contiguous run of equal stars
\* and is blank on every other row of the run.
C5_RowsWritten ==
    Rendered =>
        /\ {c[1] : c \in DOMAIN ws} = 1..(Len(solutions) + 1)
        /\ \A i \in DOMAIN solutions :
               /\ CellValue(ws, i + 1, 2) = Some(solutions[i].nb_cards)
               /\ CellValue(ws, i + 1, 3) = Some(solutions[i].xyz)
               /\ CellValue(ws, i + 1, 4) = Some(solutions[i].fusion)
               /\ CellValue(ws, i + 1, 1) =
                      IF OpensRun(i) THEN Some(solutions[i].stars) ELSE None
        /\ pc = "exit" => files[output_path].cells = ws

\* a rendered list with a run of length > 1 and a later run
C5_Witness ==
    /\ pc = "exit"
    /\ Len(solutions) >= 3
    /\ \E r \in MaximalRuns : r[1] < r[2] /\ r[2] < Len(solutions)
    /\ \E i \in DOMAIN solutions : CellValue(ws, i + 1, 1) = None

----------------------------------------------------------------------------
(* Properties of main, checked under Spec *)

\* validation is over: main has left its three checks
Validated == pc \notin {"parse", "validate"}

\* some validation rule is violated by the parsed bounds
RuleViolated ==
    \/ args.fusion_min > args.fusion_max
    \/ args.xyz_min > args.xyz_max
    \/ args.fusion_min < 1
    \/ args.xyz_min < 1

\* the message of the first violated rule, the rules taken in the order
\* fusion ordering, xyz ordering, positivity
FirstViolatedRule ==
    IF args.fusion_min > args.fusion_max THEN USAGE_FUSION_ORDER
    ELSE IF args.xyz_min > args.xyz_max THEN USAGE_XYZ_ORDER
    ELSE USAGE_POSITIVE

\* C6: main ends with a fatal usage error (non-zero exit) if and only if
\* fusion_min > fusion_max, xyz_min > xyz_max, fusion_min < 1 or xyz_min < 1;
\* the error reported is that of the first violated rule; and on such a
\* failure solve is never invoked and no file or 'Saved:' line is produced.
C6_ValidationFatal ==
    Validated =>
        /\ (exit_code # 0) <=> RuleViolated
        /\ RuleViolated =>
               /\ pc = "exit"
               /\ stderr = <<FirstViolatedRule>>
               /\ called = <<>>
               /\ solutions = <<>>
               /\ files = <<>>
               /\ dirs = {}
               /\ stdout = <<>>
        /\ ~RuleViolated => stderr = <<>>
        /\ (args.fusion_min = 5 /\ args.fusion_max = 1)
               => stderr = <<USAGE_FUSION_ORDER>>
        /\ (args.xyz_min = 0 /\ args.xyz_max >= 0
                /\ args.fusion_min <= args.fusion_max)
               => stderr = <<USAGE_POSITIVE>>

\* main has ended on fusion_min=5, fusion_max=1
C6_Witness ==
    /\ pc = "exit"
    /\ exit_code # 0
    /\ args.fusion_min = 5
    /\ args.fusion_max = 1
    /\ stderr = <<USAGE_FUSION_ORDER>>

\* "sec xyz{a}-{b} fusion{c}-{d}.xlsx"
SecName(a, b, c, d) ==
    "sec xyz" \o ToString(a) \o "-" \o ToString(b) \o " fusion"
        \o ToString(c) \o "-" \o ToString(d) \o ".xlsx"

C8_DocstringUsage ==
    argv = DocExampleArgv =>
        /\ pc # "parse" =>
               /\ args.fusion_min = 1 /\ args.fusion_max = 5
               /\ args.xyz_min = 2 /\ args.xyz_max = 6
        /\ pc = "exit" =>
               DOMAIN files =
                   {[dirname |-> <<SCRIPT_DIR, "results">>,
                     basename |-> "results 2-6 1-5.xlsx"]}

----------------------------------------------------------------------------
(* Properties of the order and of the rendered groups, checked under Spec *)

\* a list back to front
Reversed(list) == [i \in DOMAIN list |-> list[Len(list) + 1 - i]]

\* the records in the order the two loops of solve append them
Enumerated ==
    FusionLoop(args.fusion_min, args.fusion_max, args.xyz_min, args.xyz_max, <<>>)

\* C9: no two distinct records of the enumeration share both stars and xyz,
\* so the key (stars, xyz) orders the records strictly and the list solve
\* returns depends neither on the enumeration order nor on the stability of
\* the sort: sorting the enumeration taken back to front gives the same list.
C9_OrderDetermined ==
    SolveReturned =>
        /\ \A i, j \in DOMAIN solutions :
               (solutions[i].stars = solutions[j].stars
                    /\ solutions[i].xyz = solutions[j].xyz) => i = j
        /\ \A i \in 1..(Len(solutions) - 1) :
               \/ solutions[i].stars > solutions[i + 1].stars
               \/ /\ solutions[i].stars = solutions[i + 1].stars
                  /\ solutions[i].xyz > solutions[i + 1].xyz
        /\ SortDescending(Reversed(Enumerated)) = solutions
        /\ SortDescending(Reversed(solutions)) = solutions

\* solve has returned a list in which two records tie on stars
C9_Witness ==
    /\ SolveReturned
    /\ \E i, j \in DOMAIN solutions :
           i # j /\ solutions[i].stars = solutions[j].stars
    /\ Reversed(Enumerated) # Enumerated

\* the data rows of the sheet
DataRows == 2..(Len(solutions) + 1)

\* C10: when generate_excel is fed the list solve returns for validated
\* bounds, every stars value fills one contiguous run of rows, the number of
\* non-blank column-1 data cells is the number of distinct stars values,
\* (fusion_max - fusion_min) + (xyz_max - xyz_min) + 1, and within a run xyz
\* and nb_cards strictly decrease and fusion strictly increases row by row.
C10_GroupsOfSolve ==
    (Rendered /\ SolveReturned) =>
        /\ \A i, k \in DOMAIN solutions : \A j \in i..k :
               solutions[i].stars = solutions[k].stars
                   => solutions[j].stars = solutions[i].stars
        /\ Cardinality({row \in DataRows : CellValue(ws, row, 1) # None})
               = Cardinality({solutions[i].stars : i \in DOMAIN solutions})
        /\ Cardinality({row \in DataRows : CellValue(ws, row, 1) # None})
               = (args.fusion_max - args.fusion_min)
                     + (args.xyz_max - args.xyz_min) + 1
        /\ \A i \in 1..(Len(solutions) - 1) :
               solutions[i].stars = solutions[i + 1].stars =>
                   /\ CellValue(ws, i + 2, 1) = None
                   /\ CellValue(ws, i + 1, 3)[1] > CellValue(ws, i + 2, 3)[1]
                   /\ CellValue(ws, i + 1, 2)[1] > CellValue(ws, i + 2, 2)[1]
                   /\ CellValue(ws, i + 1, 4)[1] < CellValue(ws, i + 2, 4)[1]

\* a rendered list of solve with a run of three rows and a run of one row
C10_Witness ==
    /\ pc = "exit"
    /\ SolveReturned
    /\ \E r \in MaximalRuns : r[2] >= r[1] + 2
    /\ \E r \in MaximalRuns : r[2] = r[1]
    /\ \E row \in DataRows : CellValue(ws, row, 1) = None

====
